---- MODULE Spec2Model ----
(***************************************************************************)
(* Speak-Note front end: the text workflow (TextInput), the reminder       *)
(* container (ReminderProvider), the session container (AuthProvider) with *)
(* the route guards, and the reminder list view (getCountdown and          *)
(* filteredReminders).                                                     *)
(*                                                                         *)
(* React is modelled at the granularity of one task of the event loop: an  *)
(* event handler, a timer callback or the continuation of an awaited       *)
(* network call runs to its next await, the state updates it makes are     *)
(* committed, and the effects whose dependencies changed run, all in one   *)
(* step.  A 12 second timeout is a timer that may fire at any later step.  *)
(***************************************************************************)
EXTENDS Integers, Sequences, FiniteSets, TLC

\* ---------------------------------------------------------------- bounds
\* analysis requests issued in one run
MaxCalls == 2
\* reminders in the collection the list view is given
MaxListLen == 2
\* half seconds the clock of the list view runs
MaxClock == 4
\* calls made on the reminder provider from outside the text workflow
MaxDirect == 3
\* startRecording calls, mounts of VoiceInput, seconds shown by the recorder
MaxStarts == 3
MaxMounts == 2
MaxRecordingTime == 2

\* ------------------------------------------------------ program constants
DebounceThreshold == 10
UiConfidenceThreshold == 30

\* --------------------------------------------------------------- values
Null == [null |-> TRUE]

Rep(c, n) == [i \in 1..n |-> c]

\* text buffers: empty, blank but long, exactly at the threshold, above it
Texts ==
  { <<>>, Rep(" ", DebounceThreshold + 1), Rep("a", DebounceThreshold),
    Rep("a", DebounceThreshold + 1) }

\* two of the three options of the priority select
Priorities == {"Medium", "High"}

\* text.trim() is empty
IsBlank(t) == \A i \in 1..Len(t) : t[i] = " "

VARIABLES
  \* TextInput state (useState)
  text, priority, isAnalyzing, analysis, schedulingInfo,
  createdReminder, createdReminderId, debounceTimer,
  \* TextInput: memoized callback, effect cleanup, browser timers, requests
  analyzeFn, effectTimer, timers, calls, nextCall,
  \* observations of the text workflow
  createCalls,
  \* whether the user has edited the text or the priority, pressed Analyze or
  \* Clear since the last automatic request went out; whether Clear was
  \* pressed and no analysis has been triggered since
  edited, cleared,
  \* the notice in the toast slot 'reminder-toast'
  toast,
  \* ReminderProvider state, its outstanding calls, and the backend
  reminders, loading, remCalls, server, serverNextId,
  \* calls made on the provider from outside the text workflow: how many, and
  \* what the last one that completed resolved with
  nextDirect, returned,
  \* AuthProvider state, local storage, router location
  user, authLoading, localStorage, route, authCalls, loggedOut,
  \* the state of the mounted Login page (email, otpSent), or Null
  loginForm,
  \* ReminderList state, its CountdownTimers, and the wall clock (ms)
  filter, sortBy, shown, renderedAt, countdown, alerted, now,
  \* alerts fired by each mounted CountdownTimer since its mount, and for
  \* each reminder since the page was loaded
  alertsFired, alertLog,
  \* VoiceInput: whether it is mounted and which mount it is, its state, its
  \* refs, the startRecording calls waiting for the microphone, and the
  \* browser's active intervals
  voiceMounted, voiceInst, isRecording, recordingTime, audioBlob,
  timerRef, mediaRecorderRef, pendingStarts, nextStart, intervals

textVars ==
  << text, priority, isAnalyzing, analysis, schedulingInfo,
     createdReminder, createdReminderId, debounceTimer,
     analyzeFn, effectTimer, timers, calls, nextCall,
     createCalls, toast, edited, cleared >>

remVars == << reminders, loading, remCalls, server, serverNextId, nextDirect, returned >>

authVars == << user, authLoading, localStorage, route, authCalls, loggedOut, loginForm >>

viewVars ==
  << filter, sortBy, shown, renderedAt, countdown, alerted, now, alertsFired, alertLog >>

voiceVars ==
  << voiceMounted, voiceInst, isRecording, recordingTime, audioBlob,
     timerRef, mediaRecorderRef, pendingStarts, nextStart, intervals >>

vars == << textVars, remVars, authVars, viewVars, voiceVars >>

\* ------------------------------------------------------------ TextInput

\* useCallback: the closure analyzeTextAndHandleReminder holds after a render
\* in which one of its dependencies changed
MakeAnalyzeFn(txt, prio, crId, dbt) ==
  [text |-> txt, priority |-> prio, createdReminderId |-> crId, debounceTimer |-> dbt]

CancelTimer(live, id) == { t \in live : t.id # id }

\* the effect as it would be if it armed the timer from 10 characters on
RunEffectInclusive(txt, prio, crId, dbt, live, effT, next) ==
  LET fn == MakeAnalyzeFn(txt, prio, crId, dbt)
      cleaned == CancelTimer(live, effT)
  IN  IF Len(txt) >= DebounceThreshold
        THEN [ analyzeFn |-> fn,
               timers |-> CancelTimer(cleaned, dbt) \cup {[id |-> next, fn |-> fn]},
               debounceTimer |-> next,
               effectTimer |-> next ]
        ELSE [ analyzeFn |-> fn,
               timers |-> cleaned,
               debounceTimer |-> dbt,
               effectTimer |-> 0 ]

\* the effect as it would be if it returned no cleanup function
RunEffectNoCleanup(txt, prio, crId, dbt, live, effT, next) ==
  LET fn == MakeAnalyzeFn(txt, prio, crId, dbt)
  IN  IF Len(txt) > DebounceThreshold
        THEN [ analyzeFn |-> fn,
               timers |-> CancelTimer(live, dbt) \cup {[id |-> next, fn |-> fn]},
               debounceTimer |-> next,
               effectTimer |-> 0 ]
        ELSE [ analyzeFn |-> fn,
               timers |-> live,
               debounceTimer |-> dbt,
               effectTimer |-> 0 ]

\* The debounce useEffect, run because text, priority or the callback changed:
\* the previous run's cleanup, then the body.  txt, prio, crId, dbt are the
\* state of the render that runs it.
RunEffect(txt, prio, crId, dbt, live, effT, next) ==
  LET fn == MakeAnalyzeFn(txt, prio, crId, dbt)
      cleaned == CancelTimer(live, effT)
  IN  IF Len(txt) > DebounceThreshold
        THEN [ analyzeFn |-> fn,
               timers |-> CancelTimer(cleaned, dbt) \cup {[id |-> next, fn |-> fn]},
               debounceTimer |-> next,
               effectTimer |-> next ]
        ELSE [ analyzeFn |-> fn,
               timers |-> cleaned,
               debounceTimer |-> dbt,
               effectTimer |-> 0 ]

\* the component as it is when no effect runs
NoEffect ==
  [ analyzeFn |-> analyzeFn, timers |-> timers,
    debounceTimer |-> debounceTimer, effectTimer |-> effectTimer ]

\* The id of a timer that was cleared or has fired.  clearTimeout of such an
\* id does nothing and the code only tests ids for null, so every such id is
\* held as DeadTimer.
DeadTimer == -1

HeldId(id, live) == IF id = 0 \/ id \in { t.id : t \in live } THEN id ELSE DeadTimer

ApplyEffect(e) ==
  /\ analyzeFn' = [e.analyzeFn EXCEPT !.debounceTimer = HeldId(@, e.timers)]
  /\ timers' = { [t EXCEPT !.fn.debounceTimer = HeldId(@, e.timers)] : t \in e.timers }
  /\ debounceTimer' = HeldId(e.debounceTimer, e.timers)
  /\ effectTimer' = HeldId(e.effectTimer, e.timers)

\* setTimeout returns an id that no timer before it had: the smallest id
\* that no pending timer has stands for it
nextTimer ==
  CHOOSE n \in 1..(Cardinality(timers) + 1) :
    /\ n \notin { t.id : t \in timers }
    /\ \A m \in 1..(n - 1) : m \in { t.id : t \in timers }

\* analyzeTextAndHandleReminder up to its first await, called through the
\* closure fn: the result says whether a request went out and what it did to
\* the timers
StartAnalyze(fn, live, dbt) ==
  IF IsBlank(fn.text)
    THEN [ sent |-> FALSE, timers |-> live, debounceTimer |-> dbt ]
    ELSE [ sent |-> TRUE,
           timers |-> IF fn.debounceTimer # 0 THEN CancelTimer(live, fn.debounceTimer) ELSE live,
           debounceTimer |-> IF fn.debounceTimer # 0 THEN 0 ELSE dbt ]

\* an invocation of analyzeTextAndHandleReminder that is past its first await,
\* with what its continuation still reads from the closure
NewCall(fn, kind) ==
  [ cid |-> nextCall, kind |-> kind, text |-> fn.text, priority |-> fn.priority,
    createdReminderId |-> fn.createdReminderId,
    phase |-> "analyze", data |-> Null, preClear |-> FALSE ]

\* handleTextChange: the textarea is disabled while isAnalyzing
EditText(t) ==
  /\ ~isAnalyzing
  /\ t # text
  /\ text' = t
  /\ ApplyEffect(RunEffect(t, priority, createdReminderId, debounceTimer, timers, effectTimer, nextTimer))
  /\ edited' = TRUE
  /\ UNCHANGED << priority, isAnalyzing, analysis, schedulingInfo, createdReminder,
                  createdReminderId, calls, nextCall, createCalls, toast, cleared >>
  /\ UNCHANGED << remVars, authVars, viewVars, voiceVars >>

\* the priority select, never disabled
SetPriority(p) ==
  /\ p # priority
  /\ priority' = p
  /\ ApplyEffect(RunEffect(text, p, createdReminderId, debounceTimer, timers, effectTimer, nextTimer))
  /\ edited' = TRUE
  /\ UNCHANGED << text, isAnalyzing, analysis, schedulingInfo, createdReminder,
                  createdReminderId, calls, nextCall, createCalls, toast, cleared >>
  /\ UNCHANGED << remVars, authVars, viewVars, voiceVars >>

\* the setTimeout callback: analyzeTextAndHandleReminder() of the render that
\* ran the effect, then setDebounceTimer(null)
TimerFire(t) ==
  /\ t \in timers
  /\ nextCall <= MaxCalls
  /\ LET s == StartAnalyze(t.fn, timers \ {t}, debounceTimer)
     IN  /\ ApplyEffect([analyzeFn |-> analyzeFn, timers |-> s.timers,
                         debounceTimer |-> 0, effectTimer |-> effectTimer])
         /\ isAnalyzing' = (s.sent \/ isAnalyzing)
         /\ calls' = IF s.sent THEN calls \cup {NewCall(t.fn, "auto")} ELSE calls
         /\ nextCall' = IF s.sent THEN nextCall + 1 ELSE nextCall
         /\ edited' = IF s.sent THEN FALSE ELSE edited
         /\ cleared' = IF s.sent THEN FALSE ELSE cleared
  /\ UNCHANGED << text, priority, analysis, schedulingInfo, createdReminder, createdReminderId,
                  createCalls, toast >>
  /\ UNCHANGED << remVars, authVars, viewVars, voiceVars >>

\* the onClick as it would be if it left the pending timer alone
PressAnalyzeKeepsTimer(live, dbt) == live

\* the Analyze button's onClick: clears the pending timer of the current
\* render, then calls the current callback
PressAnalyzeTimers(live, dbt) == IF dbt # 0 THEN CancelTimer(live, dbt) ELSE live

PressAnalyze ==
  /\ ~IsBlank(text)
  /\ ~isAnalyzing
  /\ nextCall <= MaxCalls
  /\ LET s == StartAnalyze(analyzeFn, PressAnalyzeTimers(timers, debounceTimer), 0)
     IN  /\ ApplyEffect([analyzeFn |-> analyzeFn, timers |-> s.timers,
                         debounceTimer |-> s.debounceTimer, effectTimer |-> effectTimer])
         /\ isAnalyzing' = (s.sent \/ isAnalyzing)
         /\ calls' = IF s.sent THEN calls \cup {NewCall(analyzeFn, "manual")} ELSE calls
         /\ nextCall' = IF s.sent THEN nextCall + 1 ELSE nextCall
         /\ edited' = TRUE
         /\ cleared' = IF s.sent THEN FALSE ELSE cleared
  /\ UNCHANGED << text, priority, analysis, schedulingInfo, createdReminder, createdReminderId,
                  createCalls, toast >>
  /\ UNCHANGED << remVars, authVars, viewVars, voiceVars >>

\* clearText: the Clear button is rendered whenever text is not empty
ClearText ==
  /\ text # <<>>
  /\ text' = <<>>
  /\ analysis' = Null
  /\ schedulingInfo' = Null
  /\ createdReminder' = Null
  /\ createdReminderId' = 0
  /\ ApplyEffect(RunEffect(<<>>, priority, 0, 0,
                           PressAnalyzeTimers(timers, debounceTimer), effectTimer, nextTimer))
  /\ createCalls' = 0
  /\ calls' = { [c EXCEPT !.preClear = TRUE] : c \in calls }
  /\ edited' = TRUE
  /\ cleared' = TRUE
  /\ UNCHANGED << priority, isAnalyzing, nextCall, toast >>
  /\ UNCHANGED << remVars, authVars, viewVars, voiceVars >>

\* --------------------------------------------------- ReminderProvider

NewRemCall(op, id, payload, owner) ==
  [op |-> op, id |-> id, payload |-> payload, owner |-> owner]

\* the account a request is made for: axios.defaults.headers.common
\* ['Authorization'], which is set and deleted together with the stored token
AccountOf(token) ==
  IF token = Null THEN 0 ELSE IF token = [jwt |-> "t1"] THEN 1 ELSE 2

\* the stub backend: it stores what it is sent under the caller's account and
\* echoes it with an id
Echo(payload, id) ==
  [ f \in DOMAIN payload \cup {"id", "created_at", "is_completed", "user_id"} |->
      CASE f = "id" -> id
        [] f = "created_at" -> now
        [] f = "is_completed" -> FALSE
        [] f = "user_id" -> AccountOf(localStorage.token)
        [] OTHER -> payload[f] ]

\* GET /reminders answers with the rows of the caller's account
RowsOf(rows, account) == SelectSeq(rows, LAMBDA row : row.user_id = account)

Merge(old, payload) ==
  [ f \in DOMAIN old \cup DOMAIN payload |->
      IF f \in DOMAIN payload THEN payload[f] ELSE old[f] ]

HasId(list, id) == \E i \in 1..Len(list) : list[i].id = id

ById(list, id) == list[CHOOSE i \in 1..Len(list) : list[i].id = id]

\* prev.map(reminder => reminder.id === id ? updatedReminder : reminder)
MapReplace(list, id, updated) ==
  [ i \in 1..Len(list) |-> IF list[i].id = id THEN updated ELSE list[i] ]

\* prev.filter(reminder => reminder.id !== id)
FilterOut(list, id) == SelectSeq(list, LAMBDA x : x.id # id)

\* The backend handles a request at the moment its answer is delivered.  It
\* accepts a create always and any other request when it holds the id; any
\* request may also fail (network, validation).
ServerAccepts(r) ==
  CASE r.op = "create" -> TRUE
    [] OTHER -> HasId(server, r.id)

ServerData(r) ==
  CASE r.op = "create" -> Echo(r.payload, serverNextId)
    [] r.op = "update" -> Merge(ById(server, r.id), r.payload)
    [] r.op = "complete" -> [ById(server, r.id) EXCEPT !.is_completed = TRUE]
    [] r.op = "uncomplete" -> [ById(server, r.id) EXCEPT !.is_completed = FALSE]
    [] OTHER -> Null

ServerStore(r) ==
  CASE r.op = "create" -> Append(server, ServerData(r))
    [] r.op = "delete" -> FilterOut(server, r.id)
    [] OTHER -> MapReplace(server, r.id, ServerData(r))

ServerHandles(r, ok) ==
  /\ ok => ServerAccepts(r)
  /\ server' = IF ok THEN ServerStore(r) ELSE server
  /\ serverNextId' = IF ok /\ r.op = "create" THEN serverNextId + 1 ELSE serverNextId

\* the update as it would be if it put the new record first
CreateResultPrepended(prev, newReminder) == <<newReminder>> \o prev

\* createReminder after its await: setReminders(prev => [...prev, newReminder])
CreateResult(prev, newReminder) == Append(prev, newReminder)

\* an update that moves the updated record to the end of the list
UpdateResultMovedLast(prev, id, updatedReminder) == Append(FilterOut(prev, id), updatedReminder)

\* updateReminder and markCompleted after their await
UpdateResult(prev, id, updatedReminder) == MapReplace(prev, id, updatedReminder)

\* deleteReminder after its await
DeleteResult(prev, id) == FilterOut(prev, id)

\* a catch branch that empties the collection
AfterCallCleared(prev, result, ok) == IF ok THEN result ELSE <<>>

\* try / catch around the await: the setReminders of the try block runs when
\* the request succeeded, the catch branch sets nothing
AfterCall(prev, result, ok) == IF ok THEN result ELSE prev

\* the rest of analyzeTextAndHandleReminder after `await createReminder(...)`
\* or `await updateReminder(...)`: c is the analysis call that owns r
\* toast.success('Reminder created/updated successfully!', { id: 'reminder-toast' })
SuccessToast == "success"

\* toast.error(message, { id: 'reminder-toast' })
ErrorToast == "error"

\* no notice in the slot
NoToast == "none"

TextAfterReminder(r, success, rendered) ==
  LET c == CHOOSE x \in calls : x.cid = r.owner
      newId == IF success /\ c.data.id # 0 THEN c.data.id ELSE createdReminderId
  IN  /\ createdReminder' =
           IF success /\ c.data.id # 0 THEN c.data
           ELSE IF success THEN r.payload ELSE createdReminder
      /\ createdReminderId' = newId
      /\ isAnalyzing' = FALSE
      /\ toast' = IF success THEN SuccessToast ELSE toast
      /\ calls' = calls \ {c}
      /\ ApplyEffect(IF rendered \/ newId # createdReminderId
                       THEN RunEffect(text, priority, newId, debounceTimer,
                                      timers, effectTimer, nextTimer)
                       ELSE NoEffect)

\* the code after the provider call's await, in whoever made the call: the
\* text workflow, or a caller that only takes the boolean
AfterReminder(r, success, rendered) ==
  IF r.owner > 0
    THEN TextAfterReminder(r, success, rendered) /\ returned' = returned
    ELSE /\ returned' = [op |-> r.op, id |-> r.id, value |-> success]
         /\ ApplyEffect(IF rendered
                          THEN RunEffect(text, priority, createdReminderId, debounceTimer,
                                         timers, effectTimer, nextTimer)
                          ELSE NoEffect)
         /\ UNCHANGED << createdReminder, createdReminderId, isAnalyzing, toast, calls >>

CreateDone(r, ok) ==
  /\ r \in remCalls
  /\ r.op = "create"
  /\ ServerHandles(r, ok)
  /\ reminders' = AfterCall(reminders, CreateResult(reminders, ServerData(r)), ok)
  /\ loading' = FALSE
  /\ remCalls' = remCalls \ {r}
  /\ AfterReminder(r, ok, ok \/ loading)
  /\ UNCHANGED << text, priority, analysis, schedulingInfo, nextCall, createCalls, nextDirect,
                  edited, cleared >>
  /\ UNCHANGED << authVars, viewVars, voiceVars >>

UpdateDone(r, ok) ==
  /\ r \in remCalls
  /\ r.op = "update"
  /\ ServerHandles(r, ok)
  /\ reminders' = AfterCall(reminders, UpdateResult(reminders, r.id, ServerData(r)), ok)
  /\ loading' = FALSE
  /\ remCalls' = remCalls \ {r}
  /\ AfterReminder(r, ok, ok \/ loading)
  /\ UNCHANGED << text, priority, analysis, schedulingInfo, nextCall, createCalls, nextDirect,
                  edited, cleared >>
  /\ UNCHANGED << authVars, viewVars, voiceVars >>

\* deleteReminder after its await
DeleteDone(r, ok) ==
  /\ r \in remCalls
  /\ r.op = "delete"
  /\ ServerHandles(r, ok)
  /\ reminders' = AfterCall(reminders, DeleteResult(reminders, r.id), ok)
  /\ loading' = FALSE
  /\ remCalls' = remCalls \ {r}
  /\ AfterReminder(r, ok, ok \/ loading)
  /\ UNCHANGED << text, priority, analysis, schedulingInfo, nextCall, createCalls, nextDirect,
                  edited, cleared >>
  /\ UNCHANGED << authVars, viewVars, voiceVars >>

\* markCompleted after its await
MarkDone(r, ok) ==
  /\ r \in remCalls
  /\ r.op \in {"complete", "uncomplete"}
  /\ ServerHandles(r, ok)
  /\ reminders' = AfterCall(reminders, UpdateResult(reminders, r.id, ServerData(r)), ok)
  /\ loading' = FALSE
  /\ remCalls' = remCalls \ {r}
  /\ AfterReminder(r, ok, ok \/ loading)
  /\ UNCHANGED << text, priority, analysis, schedulingInfo, nextCall, createCalls, nextDirect,
                  edited, cleared >>
  /\ UNCHANGED << authVars, viewVars, voiceVars >>

\* a call made from outside the text workflow: try { setLoading(true); ...
DirectCall(op, id, payload) ==
  /\ nextDirect <= MaxDirect
  /\ remCalls' = remCalls \cup {NewRemCall(op, id, payload, 0 - nextDirect)}
  /\ nextDirect' = nextDirect + 1
  /\ loading' = TRUE
  /\ UNCHANGED << reminders, server, serverNextId, returned >>
  /\ UNCHANGED << textVars, authVars, viewVars, voiceVars >>

\* what the scheduling panel submits
PanelPayloads ==
  { [ title |-> "Lunch", description |-> "d", scheduled_for |-> 1500, is_important |-> FALSE,
      original_text |-> "d", confidence_score |-> 50, source_type |-> "voice",
      image_url |-> "" ] }

\* the fields an update may carry (Partial<Reminder>)
UpdatePayloads == { [title |-> "Tea"] }

\* SchedulingPanel's confirm, VoiceInput's and ImageInput's processing
CreateStart(payload) == DirectCall("create", 0, payload)

\* updateReminder called by a consumer of the context with an id it was given
UpdateStart(id, payload) == DirectCall("update", id, payload)

\* handleDelete, confirmed; the rows and their buttons are rendered only
\* while loading is false
DeleteStart(id) ==
  /\ ~loading
  /\ HasId(reminders, id)
  /\ DirectCall("delete", id, Null)

\* the branch as it would be if it posted to the endpoint of the state the
\* reminder is already in
MarkOpInverted(reminder) == IF reminder.is_completed THEN "complete" ELSE "uncomplete"

\* markCompleted's branch on the local copy: /uncomplete for a completed
\* reminder, /complete otherwise
MarkOp(reminder) == IF reminder.is_completed THEN "uncomplete" ELSE "complete"

\* handleToggleComplete of a rendered row: markCompleted finds the reminder
\* and posts to /complete or /uncomplete after what the row shows
MarkStart(id) ==
  /\ ~loading
  /\ HasId(reminders, id)
  /\ DirectCall(MarkOp(ById(reminders, id)), id, Null)

\* the ids a consumer of the context can name: those the backend has issued
\* and the next one
KnownIds == 1 .. serverNextId

\* markCompleted for an id reminders.find does not find: setLoading(true),
\* return false, finally setLoading(false), all before any await
MarkMissing(id) ==
  /\ ~HasId(reminders, id)
  /\ loading' = FALSE
  /\ returned' = [op |-> "markCompleted", id |-> id, value |-> FALSE]
  /\ ApplyEffect(IF loading
                   THEN RunEffect(text, priority, createdReminderId, debounceTimer,
                                  timers, effectTimer, nextTimer)
                   ELSE NoEffect)
  /\ UNCHANGED << text, priority, isAnalyzing, analysis, schedulingInfo, createdReminder,
                  createdReminderId, calls, nextCall, createCalls, toast, edited, cleared >>
  /\ UNCHANGED << reminders, remCalls, server, serverNextId, nextDirect >>
  /\ UNCHANGED << authVars, viewVars, voiceVars >>

\* GET /reminders is answered with what the backend holds at that moment
FetchServe(r) ==
  /\ r \in remCalls
  /\ r.op = "fetch"
  /\ r.payload = Null
  /\ r.id # 0
  /\ remCalls' = (remCalls \ {r}) \cup {[r EXCEPT !.payload = [rows |-> RowsOf(server, r.id)]]}
  /\ UNCHANGED << reminders, loading, server, serverNextId, nextDirect, returned >>
  /\ UNCHANGED << textVars, authVars, viewVars, voiceVars >>

\* fetchReminders after its await; the text tab is idle with an empty buffer,
\* its effect arms nothing at the provider's re-render
FetchDone(r, ok) ==
  /\ r \in remCalls
  /\ r.op = "fetch"
  /\ ok => r.payload # Null
  /\ reminders' = AfterCall(reminders, IF ok THEN r.payload.rows ELSE <<>>, ok)
  /\ loading' = FALSE
  /\ remCalls' = remCalls \ {r}
  /\ ApplyEffect(RunEffect(text, priority, createdReminderId, debounceTimer,
                           timers, effectTimer, nextTimer))
  /\ UNCHANGED << text, priority, isAnalyzing, analysis, schedulingInfo, createdReminder,
                  createdReminderId, calls, nextCall, createCalls, toast, edited, cleared >>
  /\ UNCHANGED << server, serverNextId, nextDirect, returned >>
  /\ UNCHANGED << authVars, viewVars, voiceVars >>

\* ------------------------------------- TextInput: the analysis response

\* What POST /analyze/text may answer for the request c: the analysis of its
\* text with no scheduling suggestion, with a suggestion of confidence 0.30
\* and no id, or with a suggestion of confidence 0.31 and the id 1.
\* Confidence is held in hundredths; the id 0 stands for an absent field.
AnalyzeReplies(c) ==
  { [analysis |-> [of |-> c.text], scheduling_info |-> Null, id |-> 0],
    [analysis |-> [of |-> c.text],
     scheduling_info |-> [confidence |-> UiConfidenceThreshold, suggested_title |-> "Lunch"],
     id |-> 0],
    [analysis |-> [of |-> c.text],
     scheduling_info |-> [confidence |-> UiConfidenceThreshold + 1, suggested_title |-> "Lunch"],
     id |-> 1] }

\* if (scheduling_info && scheduling_info.confidence >= 0.0)
CreatesReminder(si) == si # Null /\ si.confidence >= 0

\* a handler that reads the buffer of the current render, not of its own call
ReminderDataFromBuffer(c, si) ==
  [ title |-> IF si.suggested_title # "" THEN si.suggested_title ELSE "Untitled Reminder",
    description |-> text, scheduled_for |-> now, is_important |-> FALSE,
    original_text |-> text, confidence_score |-> si.confidence,
    source_type |-> "text", priority_level |-> priority ]

\* reminderData; the detected date and time are not modelled, the reminder is
\* scheduled at the time of the response
ReminderData(c, si) ==
  [ title |-> IF si.suggested_title # "" THEN si.suggested_title ELSE "Untitled Reminder",
    description |-> c.text, scheduled_for |-> now, is_important |-> FALSE,
    original_text |-> c.text, confidence_score |-> si.confidence,
    source_type |-> "text", priority_level |-> c.priority ]

AnalyzeResponseOk(c, data) ==
  /\ c \in calls
  /\ c.phase = "analyze"
  /\ analysis' = data.analysis
  /\ schedulingInfo' = data.scheduling_info
  /\ IF CreatesReminder(data.scheduling_info)
       THEN LET op == IF c.createdReminderId # 0 THEN "update" ELSE "create"
            IN  /\ remCalls' = remCalls \cup
                     {NewRemCall(op, c.createdReminderId, ReminderData(c, data.scheduling_info), c.cid)}
                /\ loading' = TRUE
                /\ calls' = (calls \ {c}) \cup {[c EXCEPT !.phase = "reminder", !.data = data]}
                /\ isAnalyzing' = isAnalyzing
                /\ ApplyEffect(IF ~loading
                                 THEN RunEffect(text, priority, createdReminderId, debounceTimer,
                                                timers, effectTimer, nextTimer)
                                 ELSE NoEffect)
                /\ createCalls' = IF op = "create" /\ ~c.preClear THEN createCalls + 1 ELSE createCalls
       ELSE /\ calls' = calls \ {c}
            /\ isAnalyzing' = FALSE
            /\ UNCHANGED << remCalls, loading, createCalls,
                            analyzeFn, timers, debounceTimer, effectTimer >>
  /\ UNCHANGED << text, priority, createdReminder, createdReminderId, nextCall, toast,
                  edited, cleared >>
  /\ UNCHANGED << reminders, server, serverNextId, nextDirect, returned >>
  /\ UNCHANGED << authVars, viewVars, voiceVars >>

\* a catch branch that also drops what the previous analysis left
AnalyzeFailureResets(c) ==
  /\ analysis' = Null
  /\ schedulingInfo' = Null
  /\ toast' = ErrorToast
  /\ UNCHANGED << text, createdReminder, createdReminderId >>

\* what the catch branch does to the component's state: the error notice,
\* nothing else
AnalyzeFailure(c) ==
  /\ toast' = ErrorToast
  /\ UNCHANGED << text, analysis, schedulingInfo, createdReminder, createdReminderId >>

\* the request failed: the catch branch, then finally setIsAnalyzing(false)
AnalyzeResponseFail(c) ==
  /\ c \in calls
  /\ c.phase = "analyze"
  /\ calls' = calls \ {c}
  /\ isAnalyzing' = FALSE
  /\ AnalyzeFailure(c)
  /\ UNCHANGED << priority, debounceTimer, analyzeFn, effectTimer, timers, nextCall, createCalls,
                  edited, cleared >>
  /\ UNCHANGED << remVars, authVars, viewVars, voiceVars >>

\* ------------------------------------------- AuthProvider and the routes

Emails == {"ann@x"}

Names == {"Ann", "Bob"}

\* the accounts the backend knows
Accounts == {"ann@x", "bob@x"}

\* the id of an account's user row
UserId(email) == IF email = "ann@x" THEN 1 ELSE 2

\* the access token the backend issues for an account
TokenOf(email) == IF email = "ann@x" THEN [jwt |-> "t1"] ELSE [jwt |-> "t2"]

\* access tokens
Tokens == { TokenOf(e) : e \in Accounts }

\* what GET /auth/me answers for an account
UserData(email, name) == [id |-> UserId(email), email |-> email, full_name |-> name]

\* JSON.stringify and JSON.parse of a user object
Stringify(u) == [json |-> u]

Parse(str) == str.json

\* a stored string that is not JSON: JSON.parse throws on it
Unparseable == [raw |-> "{"]

Parses(str) == "json" \in DOMAIN str

\* the two login forms: password, and the code sent by e-mail
LoginMethods == {"password", "otp"}

Paths == {"/", "/login", "/register", "/dashboard", "/settings"}

ProtectedPaths == {"/dashboard", "/settings"}

PublicPaths == {"/login", "/register"}

\* routes without the guards
SettleUnguarded(path, u, ld) == IF path = "/" THEN "/dashboard" ELSE path

\* AppRoutes with ProtectedRoute and PublicRoute: where the router ends up
\* when path is rendered for user u with the loading flag ld
Settle(path, u, ld) ==
  LET p == IF path = "/" THEN "/dashboard" ELSE path
  IN  IF ld THEN p
      ELSE IF p \in ProtectedPaths /\ u = Null THEN "/login"
      ELSE IF p \in PublicPaths /\ u # Null THEN "/dashboard"
      ELSE p

\* what the route guards render
View(path, u, ld) == IF ld THEN "spinner" ELSE Settle(path, u, ld)

\* the Login page as useState constructs it
FreshLogin == [email |-> "", otpSent |-> FALSE]

\* <PublicRoute><Login /></PublicRoute>: the page is mounted while the guard
\* renders it; a guard that renders the spinner or a redirect unmounts it, and
\* its state is gone
Remount(form, was, is) == IF ~is THEN Null ELSE IF was THEN form ELSE FreshLogin

\* the Login page across a step that may change what the guard renders
FormFollows ==
  loginForm' = Remount(loginForm, View(route, user, authLoading) = "/login",
                       View(route', user', authLoading') = "/login")

\* a finally that lowers the flag only when the try block threw
AfterAuthCallOnFailure(ok) == ok

\* finally { setLoading(false) }: the loading flag after an auth call,
\* whatever its outcome
AfterAuthCall(ok) == FALSE

\* ReminderProvider's effect on [isAuthenticated]: when the session becomes
\* authenticated it calls fetchReminders, which raises the provider's loading
\* flag and sends GET /reminders with the Authorization header of that
\* moment; when the session ends the effect does nothing.  The id of a fetch
\* is the account it is made for; a fetch repeated for the same account while
\* the first is unanswered is answered with it.
SessionEffect ==
  IF user = Null /\ user' # Null
    THEN /\ loading' = TRUE
         /\ remCalls' = remCalls \cup {NewRemCall("fetch", AccountOf(localStorage'.token), Null, 0)}
         /\ UNCHANGED << reminders, server, serverNextId, nextDirect, returned >>
    ELSE UNCHANGED remVars

\* the page is loaded at path p: AuthProvider and ReminderProvider are
\* constructed, every callback of the previous page is gone
Reload(p) ==
  /\ user' = Null
  /\ authLoading' = TRUE
  /\ authCalls' = {[kind |-> "startup"]}
  /\ route' = Settle(p, Null, TRUE)
  /\ UNCHANGED << localStorage, loggedOut >>
  /\ FormFollows
  /\ reminders' = <<>> /\ loading' = FALSE /\ remCalls' = {}
  /\ returned' = Null
  /\ UNCHANGED << server, serverNextId, nextDirect >>
  /\ UNCHANGED << textVars, viewVars, voiceVars >>

\* a startup that takes any stored profile, token or not
VerifyTokenWithoutToken(store) ==
  IF store.user # Null /\ Parses(store.user) THEN "restore"
  ELSE IF store.user # Null THEN "logout"
  ELSE "none"

\* the mount effect and verifyToken: what they do with what local storage holds
VerifyToken(store) ==
  IF store.token # Null /\ store.user # Null
    THEN IF Parses(store.user) THEN "restore" ELSE "logout"
    ELSE "none"

\* the mount effect with verifyToken, which awaits nothing; a JSON.parse that
\* throws ends in the catch branch, which calls logout()
StartupEffect(c) ==
  /\ c \in authCalls
  /\ c.kind = "startup"
  /\ LET does == VerifyToken(localStorage)
     IN  /\ user' = CASE does = "restore" -> Parse(localStorage.user)
                       [] does = "logout" -> Null
                       [] OTHER -> user
         /\ localStorage' = IF does = "logout" THEN [token |-> Null, user |-> Null]
                            ELSE localStorage
         /\ loggedOut' = IF does = "logout" THEN TRUE ELSE loggedOut
  /\ authLoading' = FALSE
  /\ authCalls' = authCalls \ {c}
  /\ route' = Settle(route, user', FALSE)
  /\ FormFollows
  /\ SessionEffect
  /\ UNCHANGED << textVars, viewVars, voiceVars >>

\* a link, or the back and forward buttons
Navigate(p) ==
  /\ Settle(p, user, authLoading) # route
  /\ route' = Settle(p, user, authLoading)
  /\ UNCHANGED << user, authLoading, localStorage, authCalls, loggedOut >>
  /\ FormFollows
  /\ UNCHANGED << textVars, remVars, viewVars, voiceVars >>

\* login or loginWithOTP up to its first await; the Login page is rendered by
\* PublicRoute, the email is the one typed into it, and the code form is
\* submitted only from the code-entry step; the call remembers what local
\* storage held when it was made
LoginStart(email, via) ==
  /\ View(route, user, authLoading) = "/login"
  /\ loginForm.email = email
  /\ via = "otp" => loginForm.otpSent
  /\ authLoading' = TRUE
  /\ authCalls' = authCalls \cup {[kind |-> "login", phase |-> "token", email |-> email,
                                    via |-> via, stored |-> localStorage]}
  /\ UNCHANGED << user, localStorage, route, loggedOut >>
  /\ FormFollows
  /\ UNCHANGED << textVars, remVars, viewVars, voiceVars >>

\* POST /auth/login or /auth/login-with-otp answered: the token is stored,
\* GET /auth/me goes out
LoginTokenOk(c, token) ==
  /\ c \in authCalls
  /\ c.kind = "login" /\ c.phase = "token"
  /\ token = TokenOf(c.email)
  /\ localStorage' = [localStorage EXCEPT !.token = token]
  /\ authCalls' = (authCalls \ {c}) \cup {[c EXCEPT !.phase = "me"]}
  /\ UNCHANGED << user, authLoading, route, loggedOut >>
  /\ FormFollows
  /\ UNCHANGED << textVars, remVars, viewVars, voiceVars >>

\* GET /auth/me answered: login returns true and the page calls
\* navigate('/dashboard')
LoginMeOk(c, name) ==
  /\ c \in authCalls
  /\ c.kind = "login" /\ c.phase = "me"
  /\ user' = UserData(c.email, name)
  /\ localStorage' = [localStorage EXCEPT !.user = Stringify(UserData(c.email, name))]
  /\ authLoading' = AfterAuthCall(TRUE)
  /\ authCalls' = authCalls \ {c}
  /\ route' = Settle("/dashboard", user', FALSE)
  /\ loggedOut' = FALSE
  /\ FormFollows
  /\ SessionEffect
  /\ UNCHANGED << textVars, viewVars, voiceVars >>

\* either request of login fails: the catch branch, then setLoading(false)
LoginFail(c) ==
  /\ c \in authCalls
  /\ c.kind = "login"
  /\ authLoading' = AfterAuthCall(FALSE)
  /\ authCalls' = authCalls \ {c}
  /\ route' = Settle(route, user, authLoading')
  /\ UNCHANGED << user, localStorage, loggedOut >>
  /\ FormFollows
  /\ UNCHANGED << textVars, remVars, viewVars, voiceVars >>

\* typing into the email field of the Login page (disabled once otpSent)
EditEmail(e) ==
  /\ View(route, user, authLoading) = "/login"
  /\ ~loginForm.otpSent
  /\ loginForm.email # e
  /\ loginForm' = [loginForm EXCEPT !.email = e]
  /\ UNCHANGED << user, authLoading, localStorage, route, authCalls, loggedOut >>
  /\ UNCHANGED << textVars, remVars, viewVars, voiceVars >>

\* handleRequestOTP up to the await inside requestLoginOTP: setLoading(true)
\* and POST /auth/request-login-otp
OtpRequestStart ==
  /\ View(route, user, authLoading) = "/login"
  /\ loginForm.email # "" /\ ~loginForm.otpSent
  /\ authLoading' = TRUE
  /\ authCalls' = authCalls \cup {[kind |-> "otp-request", email |-> loginForm.email]}
  /\ UNCHANGED << user, localStorage, route, loggedOut >>
  /\ FormFollows
  /\ UNCHANGED << textVars, remVars, viewVars, voiceVars >>

\* the request is answered: requestLoginOTP's finally, return true, then
\* setOtpSent(true) in the handler of the Login instance that made the call,
\* which the spinner unmounted when the call raised the flag: the setter of
\* an unmounted component changes nothing
OtpRequestOk(c) ==
  /\ c \in authCalls
  /\ c.kind = "otp-request"
  /\ authLoading' = AfterAuthCall(TRUE)
  /\ authCalls' = authCalls \ {c}
  /\ route' = Settle(route, user, authLoading')
  /\ UNCHANGED << user, localStorage, loggedOut >>
  /\ FormFollows
  /\ UNCHANGED << textVars, remVars, viewVars, voiceVars >>

\* the request fails: the catch branch, the finally, return false
OtpRequestFail(c) ==
  /\ c \in authCalls
  /\ c.kind = "otp-request"
  /\ authLoading' = AfterAuthCall(FALSE)
  /\ authCalls' = authCalls \ {c}
  /\ route' = Settle(route, user, authLoading')
  /\ UNCHANGED << user, localStorage, loggedOut >>
  /\ FormFollows
  /\ UNCHANGED << textVars, remVars, viewVars, voiceVars >>

\* register up to its first await: setLoading(true) and POST /auth/register
RegisterStart(email) ==
  /\ View(route, user, authLoading) \in PublicPaths
  /\ authLoading' = TRUE
  /\ authCalls' = authCalls \cup {[kind |-> "register", email |-> email]}
  /\ UNCHANGED << user, localStorage, route, loggedOut >>
  /\ FormFollows
  /\ UNCHANGED << textVars, remVars, viewVars, voiceVars >>

\* POST /auth/register answered: register calls login(email, password),
\* which raises the flag again and posts to /auth/login; when login returns,
\* register's own finally lowers the flag once more in the same task
RegisterOk(c) ==
  /\ c \in authCalls
  /\ c.kind = "register"
  /\ authLoading' = TRUE
  /\ authCalls' = (authCalls \ {c}) \cup {[kind |-> "login", phase |-> "token", email |-> c.email,
                                             via |-> "register", stored |-> localStorage]}
  /\ UNCHANGED << user, localStorage, route, loggedOut >>
  /\ FormFollows
  /\ UNCHANGED << textVars, remVars, viewVars, voiceVars >>

\* POST /auth/register fails: the catch branch, then the finally
RegisterFail(c) ==
  /\ c \in authCalls
  /\ c.kind = "register"
  /\ authLoading' = AfterAuthCall(FALSE)
  /\ authCalls' = authCalls \ {c}
  /\ route' = Settle(route, user, authLoading')
  /\ UNCHANGED << user, localStorage, loggedOut >>
  /\ FormFollows
  /\ UNCHANGED << textVars, remVars, viewVars, voiceVars >>

\* logout, from the button of Layout, which the protected routes render
Logout ==
  /\ View(route, user, authLoading) \in ProtectedPaths
  /\ localStorage' = [token |-> Null, user |-> Null]
  /\ user' = Null
  /\ route' = Settle(route, Null, authLoading)
  /\ loggedOut' = TRUE
  /\ UNCHANGED << authLoading, authCalls >>
  /\ FormFollows
  /\ SessionEffect
  /\ UNCHANGED << textVars, viewVars, voiceVars >>

\* Settings.handleProfileUpdate up to its await; it keeps the updateUser of
\* the render it was created in, and with it that render's user
ProfileUpdateStart(name) ==
  /\ View(route, user, authLoading) = "/settings"
  /\ authCalls' = authCalls \cup {[kind |-> "profile", user |-> user, full_name |-> name]}
  /\ UNCHANGED << user, authLoading, localStorage, route, loggedOut >>
  /\ FormFollows
  /\ UNCHANGED << textVars, remVars, viewVars, voiceVars >>

\* updateUser called through a closure whose user is u
UpdateUser(u, userData) ==
  IF u # Null
    THEN [ user |-> [u EXCEPT !.full_name = userData.full_name],
           stored |-> Stringify([u EXCEPT !.full_name = userData.full_name]) ]
    ELSE [ user |-> user, stored |-> localStorage.user ]

\* PUT /auth/me answered: updateUser({ full_name })
ProfileUpdateOk(c) ==
  /\ c \in authCalls
  /\ c.kind = "profile"
  /\ LET upd == UpdateUser(c.user, [full_name |-> c.full_name])
     IN  /\ user' = upd.user
         /\ localStorage' = [localStorage EXCEPT !.user = upd.stored]
         /\ route' = Settle(route, upd.user, authLoading)
  /\ authCalls' = authCalls \ {c}
  /\ UNCHANGED << authLoading, loggedOut >>
  /\ FormFollows
  /\ SessionEffect
  /\ UNCHANGED << textVars, viewVars, voiceVars >>

\* PUT /auth/me fails: a toast
ProfileUpdateFail(c) ==
  /\ c \in authCalls
  /\ c.kind = "profile"
  /\ authCalls' = authCalls \ {c}
  /\ UNCHANGED << user, authLoading, localStorage, route, loggedOut >>
  /\ FormFollows
  /\ UNCHANGED << textVars, remVars, viewVars, voiceVars >>

\* ------------------------------------------ ReminderList, CountdownTimer

\* a text is the sequence of its characters
DigitChars == <<"0", "1", "2", "3", "4", "5", "6", "7", "8", "9">>

\* Number.prototype.toString of a natural number
RECURSIVE NumToString(_)
NumToString(n) ==
  IF n < 10 THEN <<DigitChars[n + 1]>>
  ELSE NumToString(n \div 10) \o <<DigitChars[(n % 10) + 1]>>

\* the padding as it would be if it were left out
PadStartNone(str, len, ch) == str

\* String.prototype.padStart with a one-character filler
PadStart(str, len, ch) ==
  IF Len(str) >= len THEN str ELSE Rep(ch, len - Len(str)) \o str

Due == <<"D", "u", "e", "!">>

Left == <<" ", "l", "e", "f", "t">>

\* getCountdown; scheduledFor and nowMs are the getTime() of the two dates
GetCountdown(scheduledFor, nowMs) ==
  LET diff == scheduledFor - nowMs
  IN  IF diff <= 0 THEN Due
      ELSE LET hours == diff \div (1000 * 60 * 60)
               minutes == (diff % (1000 * 60 * 60)) \div (1000 * 60)
               seconds == (diff % (1000 * 60)) \div 1000
           IN  PadStart(NumToString(hours), 2, "0") \o <<":">>
                 \o PadStart(NumToString(minutes), 2, "0") \o <<":">>
                 \o PadStart(NumToString(seconds), 2, "0") \o Left

Filters == {"all", "upcoming", "completed", "important"}

SortKeys == {"date", "created", "title"}

\* the filter as it would be if it kept a reminder that is due this instant
FilterKeepsInclusive(f, reminder, nowMs) ==
  CASE f = "upcoming" -> ~reminder.is_completed /\ reminder.scheduled_for >= nowMs
    [] f = "completed" -> reminder.is_completed
    [] f = "important" -> reminder.is_important
    [] OTHER -> TRUE

\* the callback of reminders.filter
FilterKeeps(f, reminder, nowMs) ==
  CASE f = "upcoming" -> ~reminder.is_completed /\ reminder.scheduled_for > nowMs
    [] f = "completed" -> reminder.is_completed
    [] f = "important" -> reminder.is_important
    [] OTHER -> TRUE

RECURSIVE FilterList(_, _, _)
FilterList(list, f, nowMs) ==
  IF list = <<>> THEN <<>>
  ELSE IF FilterKeeps(f, Head(list), nowMs)
         THEN <<Head(list)>> \o FilterList(Tail(list), f, nowMs)
         ELSE FilterList(Tail(list), f, nowMs)

\* localeCompare of two one-letter titles
LocaleCompare(a, b) == IF a = b THEN 0 ELSE IF a = "a" THEN -1 ELSE 1

\* the callback of sort
Compare(s, a, b) ==
  CASE s = "date" -> a.scheduled_for - b.scheduled_for
    [] s = "created" -> a.created_at - b.created_at
    [] s = "title" -> LocaleCompare(a.title, b.title)
    [] OTHER -> 0

\* Array.prototype.sort is stable: x goes before the first element that
\* compares greater than it
RECURSIVE InsertSorted(_, _, _)
InsertSorted(sorted, x, s) ==
  IF sorted = <<>> THEN <<x>>
  ELSE IF Compare(s, Head(sorted), x) > 0 THEN <<x>> \o sorted
       ELSE <<Head(sorted)>> \o InsertSorted(Tail(sorted), x, s)

RECURSIVE SortList(_, _)
SortList(list, s) ==
  IF list = <<>> THEN <<>>
  ELSE InsertSorted(SortList(SubSeq(list, 1, Len(list) - 1), s), list[Len(list)], s)

\* filteredReminders of a render at time nowMs
FilteredReminders(list, f, s, nowMs) == SortList(FilterList(list, f, nowMs), s)

Ids(list) == { list[i].id : i \in 1..Len(list) }

\* {reminder.source_type && ( ... {reminder.confidence_score && ( ... <CountdownTimer
HasCountdown(reminder) == reminder.source_type # "" /\ reminder.confidence_score # 0

TimerIds(list) == { list[i].id : i \in { j \in 1..Len(list) : HasCountdown(list[j]) } }

\* a timer whose flag at mount is whether the reminder has alerted before
AlertedAtMountKept(id) == alertLog[id] > 0

\* const [alerted, setAlerted] = useState(false)
AlertedAtMount(id) == FALSE

\* a filter step that hands on the collection itself when it keeps every row
SortReceiverShared(f) == IF f = "all" THEN "collection" ELSE "copy"

\* reminders.filter(...) returns a new array for every filter; it is that
\* array that .sort(...) reorders in place
SortReceiver(f) == "copy"

\* the provider's array after the render's in-place sort
CollectionAfterRender(list, f, s) ==
  IF SortReceiver(f) = "collection" THEN SortList(list, s) ELSE list

\* the list is rendered: a CountdownTimer is mounted for every reminder that
\* comes into view (key = reminder.id) and unmounted for every one that leaves
Render(list, f, s) ==
  LET rows == FilteredReminders(list, f, s, now)
  IN  /\ shown' = rows
      /\ reminders' = CollectionAfterRender(list, f, s)
      /\ renderedAt' = now
      /\ countdown' = [ id \in TimerIds(rows) |->
                          IF id \in DOMAIN countdown THEN countdown[id]
                          ELSE GetCountdown(ById(rows, id).scheduled_for, now) ]
      /\ alerted' = [ id \in TimerIds(rows) |->
                        IF id \in DOMAIN alerted THEN alerted[id] ELSE AlertedAtMount(id) ]
      /\ alertsFired' = [ id \in TimerIds(rows) |->
                            IF id \in DOMAIN alertsFired THEN alertsFired[id] ELSE 0 ]
      /\ alertLog' = [ id \in Ids(list) |-> IF id \in DOMAIN alertLog THEN alertLog[id] ELSE 0 ]

SetFilter(f) ==
  /\ f # filter
  /\ filter' = f
  /\ Render(reminders, f, sortBy)
  /\ UNCHANGED << sortBy, now >>
  /\ UNCHANGED << loading, remCalls, server, serverNextId, nextDirect, returned >>
  /\ UNCHANGED << textVars, authVars, voiceVars >>

SetSortBy(s) ==
  /\ s # sortBy
  /\ sortBy' = s
  /\ Render(reminders, filter, s)
  /\ UNCHANGED << filter, now >>
  /\ UNCHANGED << loading, remCalls, server, serverNextId, nextDirect, returned >>
  /\ UNCHANGED << textVars, authVars, voiceVars >>

\* time between two runs of the interval callbacks, in ms
TickSteps == {500, 1000}

\* an interval callback that does not test the flag
AlertsUnguarded(newCountdown, wasAlerted) == newCountdown = Due

\* if (newCountdown === 'Due!' && !alerted): notification, sound, setAlerted(true)
Alerts(newCountdown, wasAlerted) == newCountdown = Due /\ ~wasAlerted

\* time passes and the setInterval callback of every mounted CountdownTimer
\* runs; the list itself is not rendered again
Tick(d) ==
  /\ now + d <= MaxClock * 500
  /\ now' = now + d
  /\ countdown' = [ id \in DOMAIN countdown |->
                      GetCountdown(ById(shown, id).scheduled_for, now + d) ]
  /\ LET fires == { id \in DOMAIN alerted :
                      Alerts(GetCountdown(ById(shown, id).scheduled_for, now + d), alerted[id]) }
     IN  /\ alerted' = [ id \in DOMAIN alerted |-> alerted[id] \/ id \in fires ]
         /\ alertsFired' = [ id \in DOMAIN alertsFired |->
                               IF id \in fires THEN alertsFired[id] + 1 ELSE alertsFired[id] ]
         /\ alertLog' = [ id \in DOMAIN alertLog |->
                            IF id \in fires THEN alertLog[id] + 1 ELSE alertLog[id] ]
  /\ UNCHANGED << filter, sortBy, shown, renderedAt >>
  /\ UNCHANGED << textVars, remVars, authVars, voiceVars >>

\* scheduled times: within the clock's run, 3661 s and 100 h ahead
ScheduledTimes == {1500, 3661 * 1000, 100 * 3600 * 1000}

\* the collections the list view is given: reminder i has id i
ReminderShapes == [scheduled_for : ScheduledTimes, is_completed : BOOLEAN]

ViewReminder(i, shape) ==
  [ id |-> i, title |-> IF i % 2 = 1 THEN "b" ELSE "a",
    scheduled_for |-> shape.scheduled_for, created_at |-> 0 - i,
    is_completed |-> shape.is_completed, is_important |-> shape.scheduled_for = 1500,
    source_type |-> "text", confidence_score |-> 50, user_id |-> 1 ]

ReminderLists ==
  UNION { { [i \in 1..n |-> ViewReminder(i, sh[i])] : sh \in [1..n -> ReminderShapes] } :
          n \in 0..MaxListLen }

\* ---------------------------------------------------------- VoiceInput

\* the state of a VoiceInput that has just been mounted
VoiceFresh ==
  [ isRecording |-> FALSE, recordingTime |-> 0, audioBlob |-> FALSE,
    timerRef |-> 0, mediaRecorderRef |-> FALSE ]

\* timerRef.current = setInterval(...): one more active interval; the ref's
\* previous value is overwritten, not cleared
StartIntervals(live, ref, k, inst) == live \cup {[id |-> k, inst |-> inst]}

\* the microphone button while nothing is being recorded: startRecording up
\* to its await of getUserMedia
StartRecording ==
  /\ voiceMounted /\ ~isRecording
  /\ nextStart <= MaxStarts
  /\ pendingStarts' = pendingStarts \cup {[k |-> nextStart, inst |-> voiceInst]}
  /\ nextStart' = nextStart + 1
  /\ UNCHANGED << voiceMounted, voiceInst, isRecording, recordingTime, audioBlob,
                  timerRef, mediaRecorderRef, intervals >>
  /\ UNCHANGED << textVars, remVars, authVars, viewVars >>

\* getUserMedia resolves for the call s: the recorder is started and the
\* interval is set; the setters and the refs of a mount that is gone change
\* nothing on screen, the interval is created all the same
MediaGranted(s) ==
  /\ s \in pendingStarts
  /\ pendingStarts' = pendingStarts \ {s}
  /\ LET here == voiceMounted /\ s.inst = voiceInst
     IN  /\ intervals' = StartIntervals(intervals, IF here THEN timerRef ELSE 0, s.k, s.inst)
         /\ isRecording' = IF here THEN TRUE ELSE isRecording
         /\ recordingTime' = IF here THEN 0 ELSE recordingTime
         /\ timerRef' = IF here THEN s.k ELSE timerRef
         /\ mediaRecorderRef' = IF here THEN TRUE ELSE mediaRecorderRef
  /\ UNCHANGED << voiceMounted, voiceInst, audioBlob, nextStart >>
  /\ UNCHANGED << textVars, remVars, authVars, viewVars >>

\* getUserMedia rejects: the catch branch, a toast
MediaDenied(s) ==
  /\ s \in pendingStarts
  /\ pendingStarts' = pendingStarts \ {s}
  /\ UNCHANGED << voiceMounted, voiceInst, isRecording, recordingTime, audioBlob,
                  timerRef, mediaRecorderRef, nextStart, intervals >>
  /\ UNCHANGED << textVars, remVars, authVars, viewVars >>

\* the microphone button while recording: stopRecording, and the recorder's
\* onstop, which sets the blob
StopRecording ==
  /\ voiceMounted /\ isRecording
  /\ mediaRecorderRef
  /\ isRecording' = FALSE
  /\ audioBlob' = TRUE
  /\ intervals' = IF timerRef # 0 THEN { t \in intervals : t.id # timerRef } ELSE intervals
  /\ UNCHANGED << voiceMounted, voiceInst, recordingTime, timerRef, mediaRecorderRef,
                  pendingStarts, nextStart >>
  /\ UNCHANGED << textVars, remVars, authVars, viewVars >>

\* resetRecording, offered once there is a blob
ResetRecording ==
  /\ voiceMounted /\ audioBlob
  /\ audioBlob' = FALSE
  /\ recordingTime' = 0
  /\ UNCHANGED << voiceMounted, voiceInst, isRecording, timerRef, mediaRecorderRef,
                  pendingStarts, nextStart, intervals >>
  /\ UNCHANGED << textVars, remVars, authVars, viewVars >>

\* an active interval's callback: setRecordingTime(prev => prev + 1), which
\* does nothing for a mount that is gone
IntervalTick(t) ==
  /\ t \in intervals
  /\ recordingTime < MaxRecordingTime
  /\ recordingTime' = IF voiceMounted /\ t.inst = voiceInst
                        THEN recordingTime + 1 ELSE recordingTime
  /\ UNCHANGED << voiceMounted, voiceInst, isRecording, audioBlob, timerRef, mediaRecorderRef,
                  pendingStarts, nextStart, intervals >>
  /\ UNCHANGED << textVars, remVars, authVars, viewVars >>

\* another tab is selected: the effect's cleanup clears the interval the ref
\* holds
VoiceUnmount ==
  /\ voiceMounted
  /\ voiceMounted' = FALSE
  /\ intervals' = IF timerRef # 0 THEN { t \in intervals : t.id # timerRef } ELSE intervals
  /\ UNCHANGED << voiceInst, isRecording, recordingTime, audioBlob, timerRef,
                  mediaRecorderRef, pendingStarts, nextStart >>
  /\ UNCHANGED << textVars, remVars, authVars, viewVars >>

\* the voice tab is selected again: a new VoiceInput with new state and refs
VoiceMount ==
  /\ ~voiceMounted
  /\ voiceInst < MaxMounts
  /\ voiceMounted' = TRUE
  /\ voiceInst' = voiceInst + 1
  /\ isRecording' = VoiceFresh.isRecording
  /\ recordingTime' = VoiceFresh.recordingTime
  /\ audioBlob' = VoiceFresh.audioBlob
  /\ timerRef' = VoiceFresh.timerRef
  /\ mediaRecorderRef' = VoiceFresh.mediaRecorderRef
  /\ UNCHANGED << pendingStarts, nextStart, intervals >>
  /\ UNCHANGED << textVars, remVars, authVars, viewVars >>

\* -------------------------------------------------- initial states

\* VoiceInput on the tab that is selected (mounted) or not
VoiceInit(mounted) ==
  /\ voiceMounted = mounted /\ voiceInst = 1
  /\ isRecording = VoiceFresh.isRecording /\ recordingTime = VoiceFresh.recordingTime
  /\ audioBlob = VoiceFresh.audioBlob
  /\ timerRef = VoiceFresh.timerRef /\ mediaRecorderRef = VoiceFresh.mediaRecorderRef
  /\ pendingStarts = {} /\ nextStart = 1 /\ intervals = {}

\* an authenticated session
SessionInit ==
  /\ user = UserData("ann@x", "Ann")
  /\ authLoading = FALSE
  /\ localStorage = [token |-> [jwt |-> "t1"], user |-> Stringify(UserData("ann@x", "Ann"))]
  /\ authCalls = {} /\ loggedOut = FALSE
  /\ loginForm = Null

TextInit ==
  /\ text = <<>> /\ priority = "Medium" /\ isAnalyzing = FALSE
  /\ analysis = Null /\ schedulingInfo = Null
  /\ createdReminder = Null /\ createdReminderId = 0 /\ debounceTimer = 0
  /\ analyzeFn = MakeAnalyzeFn(<<>>, "Medium", 0, 0)
  /\ effectTimer = 0 /\ timers = {} /\ calls = {} /\ nextCall = 1
  /\ createCalls = 0 /\ toast = NoToast
  /\ edited = FALSE /\ cleared = FALSE

RemInit ==
  /\ reminders = <<>> /\ loading = FALSE /\ remCalls = {}
  /\ server = <<>> /\ serverNextId = 1
  /\ nextDirect = 1 /\ returned = Null

\* ReminderList mounted over the collection list at time 0
ViewInit(list) ==
  /\ filter = "all" /\ sortBy = "date" /\ now = 0
  /\ shown = FilteredReminders(list, "all", "date", 0)
  /\ renderedAt = 0
  /\ countdown = [ id \in TimerIds(list) |-> GetCountdown(ById(list, id).scheduled_for, 0) ]
  /\ alerted = [ id \in TimerIds(list) |-> FALSE ]
  /\ alertsFired = [ id \in TimerIds(list) |-> 0 ]
  /\ alertLog = [ id \in Ids(list) |-> 0 ]

\* the text tab of the dashboard of an authenticated session
Init ==
  /\ TextInit /\ RemInit /\ SessionInit
  /\ route = "/dashboard"
  /\ ViewInit(<<>>)
  /\ VoiceInit(FALSE)

Next ==
  \/ \E t \in Texts : EditText(t)
  \/ \E p \in Priorities : SetPriority(p)
  \/ \E t \in timers : TimerFire(t)
  \/ PressAnalyze
  \/ ClearText
  \/ \E c \in calls : \E d \in AnalyzeReplies(c) : AnalyzeResponseOk(c, d)
  \/ \E c \in calls : AnalyzeResponseFail(c)
  \/ \E r \in remCalls : \E ok \in BOOLEAN : CreateDone(r, ok)
  \/ \E r \in remCalls : \E ok \in BOOLEAN : UpdateDone(r, ok)

Spec == Init /\ [][Next]_vars

\* the session and the routes: the page is loaded at any path, with or
\* without a stored session
StoredSessions ==
  [ token : {Null, [jwt |-> "t1"]},
    user : {Null, Stringify(UserData("ann@x", "Ann")), Unparseable} ]

\* the reminders the backend holds, one for each account
AccountRows ==
  << ViewReminder(1, [scheduled_for |-> 1500, is_completed |-> FALSE]),
     [ViewReminder(2, [scheduled_for |-> 1500, is_completed |-> FALSE]) EXCEPT !.user_id = 2] >>

InitAuth ==
  /\ TextInit /\ ViewInit(<<>>) /\ VoiceInit(FALSE)
  /\ reminders = <<>> /\ loading = FALSE /\ remCalls = {}
  /\ server = AccountRows /\ serverNextId = Len(AccountRows) + 1
  /\ nextDirect = 1 /\ returned = Null
  /\ user = Null /\ authLoading = TRUE
  /\ localStorage \in StoredSessions
  /\ route \in { Settle(p, Null, TRUE) : p \in Paths }
  /\ authCalls = {[kind |-> "startup"]}
  /\ loggedOut = FALSE
  /\ loginForm = Null

NextAuth ==
  \/ \E p \in Paths : Reload(p)
  \/ \E c \in authCalls : StartupEffect(c)
  \/ \E p \in Paths : Navigate(p)
  \/ \E e \in Emails : \E via \in LoginMethods : LoginStart(e, via)
  \/ \E c \in authCalls : \E t \in Tokens : LoginTokenOk(c, t)
  \/ \E c \in authCalls : \E n \in Names : LoginMeOk(c, n)
  \/ \E c \in authCalls : LoginFail(c)
  \/ \E e \in Emails \cup {""} : EditEmail(e)
  \/ OtpRequestStart
  \/ \E c \in authCalls : OtpRequestOk(c)
  \/ \E c \in authCalls : OtpRequestFail(c)
  \/ \E e \in Emails : RegisterStart(e)
  \/ \E c \in authCalls : RegisterOk(c)
  \/ \E c \in authCalls : RegisterFail(c)
  \/ Logout
  \/ \E n \in Names : ProfileUpdateStart(n)
  \/ \E c \in authCalls : ProfileUpdateOk(c)
  \/ \E c \in authCalls : ProfileUpdateFail(c)
  \/ \E r \in remCalls : FetchServe(r)
  \/ \E r \in remCalls : \E ok \in BOOLEAN : FetchDone(r, ok)

SpecAuth == InitAuth /\ [][NextAuth]_vars

\* the mount effect of AuthProvider runs once the first render is committed
SpecAuthFair == SpecAuth /\ WF_vars(\E c \in authCalls : StartupEffect(c))

\* two accounts on one browser: the login page of a signed-out visitor
InitSession ==
  /\ TextInit /\ ViewInit(<<>>) /\ VoiceInit(FALSE)
  /\ reminders = <<>> /\ loading = FALSE /\ remCalls = {}
  /\ server = AccountRows /\ serverNextId = Len(AccountRows) + 1
  /\ nextDirect = 1 /\ returned = Null
  /\ user = Null /\ authLoading = FALSE
  /\ localStorage = [token |-> Null, user |-> Null]
  /\ route = "/login"
  /\ authCalls = {} /\ loggedOut = FALSE
  /\ loginForm = FreshLogin

NextSession ==
  \/ \E e \in Accounts : EditEmail(e)
  \/ \E e \in Accounts : LoginStart(e, "password")
  \/ \E c \in authCalls : \E t \in Tokens : LoginTokenOk(c, t)
  \/ \E c \in authCalls : \E n \in Names : LoginMeOk(c, n)
  \/ \E c \in authCalls : LoginFail(c)
  \/ Logout
  \/ \E r \in remCalls : FetchServe(r)
  \/ \E r \in remCalls : \E ok \in BOOLEAN : FetchDone(r, ok)

SpecSession == InitSession /\ [][NextSession]_vars

\* the list view over a given collection
InitView ==
  /\ TextInit /\ SessionInit
  /\ route = "/dashboard"
  /\ loading = FALSE /\ remCalls = {}
  /\ reminders \in ReminderLists
  /\ server = reminders /\ serverNextId = Len(reminders) + 1
  /\ nextDirect = 1 /\ returned = Null
  /\ ViewInit(reminders)
  /\ VoiceInit(FALSE)

NextView ==
  \/ \E f \in Filters : SetFilter(f)
  \/ \E s \in SortKeys : SetSortBy(s)
  \/ \E d \in TickSteps : Tick(d)

SpecView == InitView /\ [][NextView]_vars

\* the provider after the session became authenticated: its effect has called
\* fetchReminders, the backend holds one reminder
InitRem ==
  /\ TextInit /\ SessionInit
  /\ route = "/dashboard"
  /\ reminders = <<>> /\ loading = TRUE
  /\ remCalls = {NewRemCall("fetch", 1, Null, 0)}
  /\ server = << ViewReminder(1, [scheduled_for |-> 1500, is_completed |-> FALSE]) >>
  /\ serverNextId = 2
  /\ nextDirect = 1 /\ returned = Null
  /\ ViewInit(<<>>)
  /\ VoiceInit(FALSE)

NextRem ==
  \/ \E r \in remCalls : FetchServe(r)
  \/ \E r \in remCalls : \E ok \in BOOLEAN : FetchDone(r, ok)
  \/ \E payload \in PanelPayloads : CreateStart(payload)
  \/ \E id \in Ids(reminders) : \E payload \in UpdatePayloads : UpdateStart(id, payload)
  \/ \E id \in Ids(reminders) : DeleteStart(id)
  \/ \E id \in Ids(reminders) : MarkStart(id)
  \/ \E id \in KnownIds : MarkMissing(id)
  \/ \E r \in remCalls : \E ok \in BOOLEAN : CreateDone(r, ok)
  \/ \E r \in remCalls : \E ok \in BOOLEAN : UpdateDone(r, ok)
  \/ \E r \in remCalls : \E ok \in BOOLEAN : DeleteDone(r, ok)
  \/ \E r \in remCalls : \E ok \in BOOLEAN : MarkDone(r, ok)

SpecRem == InitRem /\ [][NextRem]_vars

\* the dashboard with the voice tab selected, as it is when it opens
InitVoice ==
  /\ TextInit /\ RemInit /\ SessionInit
  /\ route = "/dashboard"
  /\ ViewInit(<<>>)
  /\ VoiceInit(TRUE)

NextVoice ==
  \/ StartRecording
  \/ \E s \in pendingStarts : MediaGranted(s)
  \/ \E s \in pendingStarts : MediaDenied(s)
  \/ StopRecording
  \/ ResetRecording
  \/ \E t \in intervals : IntervalTick(t)
  \/ VoiceUnmount
  \/ VoiceMount

SpecVoice == InitVoice /\ [][NextVoice]_vars

\* ------------------------------------------ properties: the text workflow

\* the analysis requests a step sends
IssuedCalls == { c \in calls' : c.cid \notin { x.cid : x \in calls } }

\* C1: no automatic (timer-driven) analysis request is issued while the text
\* buffer holds 10 characters or fewer, nor with a content of 10 characters or
\* fewer, whatever edits, priority changes and timer firings came before
C1_NoAutoRequestShortBuffer ==
  [][ \A c \in IssuedCalls :
        c.kind = "auto" => Len(text) > DebounceThreshold /\ Len(c.text) > DebounceThreshold ]_vars

\* a timer was armed for a long buffer, the buffer was edited back to 10
\* characters before the timer fired, and no request has gone out
C1_Witness ==
  /\ text = Rep("a", DebounceThreshold)
  /\ debounceTimer = DeadTimer
  /\ timers = {}
  /\ nextCall = 1

\* C2: an automatic request carries the content of the last edit, and so does
\* every trigger still pending: the trigger an earlier edit armed is gone
C2_AutoRequestCarriesFinalEdit ==
  [][ /\ \A c \in IssuedCalls : c.kind = "auto" => c.text = text
      /\ \A t \in timers' : t.fn.text = text' ]_vars

\* the first request of the run is in flight and carries the buffer; it was
\* sent by a timer armed in a render that still held the id of an earlier
\* timer, which was cleared without firing
C2_Witness ==
  /\ analyzeFn.debounceTimer = DeadTimer
  /\ \E c \in calls :
       /\ c.kind = "auto" /\ c.cid = 1 /\ c.phase = "analyze"
       /\ c.text = text /\ c.text = analyzeFn.text

\* C3: a reminder create or update call is issued after an analysis response
\* exactly if its suggestion's confidence is above 0.3; in particular no call
\* is outstanding for a suggestion of confidence 0.3 or less
C3_ReminderCallOnlyAboveThreshold ==
  \A c \in calls :
    c.phase = "reminder" => c.data.scheduling_info.confidence > UiConfidenceThreshold

\* C4: between two Clear actions at most one reminder create call is issued
C4_AtMostOneCreatePerSession == createCalls <= 1

\* C9: pressing Analyze sends a request with the buffer in that very step and
\* leaves no delayed trigger pending
C9_PressIssuesAndCancels ==
  [][ PressAnalyze =>
        /\ \E c \in IssuedCalls : c.kind = "manual" /\ c.text = text
        /\ timers' = {} ]_vars

\* the first request of the run was sent by the button for a buffer longer
\* than 10 characters, whose delayed trigger had not fired, and none is pending
C9_Witness ==
  /\ nextCall = 2
  /\ timers = {}
  /\ \E c \in calls :
       c.kind = "manual" /\ c.phase = "analyze" /\ c.text = text /\ Len(text) > DebounceThreshold

\* C10: at most one analysis request, its reminder step included, is in
\* flight at any time
C10_AtMostOneInFlight == Cardinality(calls) <= 1

\* C6: a createReminder call that succeeds leaves the collection equal to the
\* previous one with one record appended, and that record has the fields that
\* were submitted
C6_CreateAppendsEcho ==
  [][ \A r \in remCalls :
        CreateDone(r, TRUE) =>
          /\ Len(reminders') = Len(reminders) + 1
          /\ SubSeq(reminders', 1, Len(reminders)) = reminders
          /\ LET n == reminders'[Len(reminders')]
             IN  \A f \in DOMAIN r.payload : n[f] = r.payload[f] ]_vars

\* two creations have succeeded, the second record after the first
C6_Witness ==
  /\ Len(reminders) = 2
  /\ reminders[1].id = 1 /\ reminders[2].id = 2
  /\ reminders[1] # [reminders[2] EXCEPT !.id = 1]

\* --------------------------------- properties: the session and the routes

\* C5: once logout has run, and until a login succeeds, the session is
\* unauthenticated and neither /dashboard nor /settings is rendered
C5_LoggedOutStaysOut ==
  loggedOut => user = Null /\ View(route, user, authLoading) \notin ProtectedPaths

\* ------------------------------------------ properties: the list view

\* a number in at least two decimal digits
TwoDigits(n) == IF n < 10 THEN <<"0", DigitChars[n + 1]>> ELSE NumToString(n)

\* the text for a target that lies secs whole seconds ahead
CountdownText(secs) ==
  TwoDigits(secs \div 3600) \o <<":">> \o TwoDigits((secs \div 60) % 60) \o <<":">>
    \o TwoDigits(secs % 60) \o Left

\* C7: every countdown on display is 'Due!' when its scheduled time is at or
\* before the current time, and otherwise the whole hours, remaining minutes
\* and remaining seconds of the difference, each in at least two digits,
\* followed by ' left'; 3661 seconds give '01:01:01 left'
C7_CountdownText ==
  \A id \in DOMAIN countdown :
    LET target == ById(shown, id).scheduled_for
    IN  /\ target <= now => countdown[id] = Due
        /\ target > now => countdown[id] = CountdownText((target - now) \div 1000)
        /\ target - now = 3661 * 1000 =>
             countdown[id] = <<"0", "1", ":", "0", "1", ":", "0", "1", " ", "l", "e", "f", "t">>

\* after the interval callbacks ran at 1.5 s: a reminder scheduled for this
\* very instant shows 'Due!', one scheduled 3661 s after the start shows
\* '01:00:59 left'
C7_Witness ==
  /\ now = 1500
  /\ \E id \in DOMAIN countdown :
       ById(shown, id).scheduled_for = now /\ countdown[id] = Due
  /\ \E id \in DOMAIN countdown :
       countdown[id] = <<"0", "1", ":", "0", "0", ":", "5", "9", " ", "l", "e", "f", "t">>

Elements(list) == { list[i] : i \in 1..Len(list) }

\* C8: the list rendered under the 'upcoming' filter holds exactly the
\* reminders that are not completed and scheduled strictly after the time of
\* the render, and under the 'completed' filter exactly the completed ones,
\* each once
C8_FilterExact ==
  /\ filter = "upcoming" =>
       /\ Elements(shown) =
            { r \in Elements(reminders) : ~r.is_completed /\ r.scheduled_for > renderedAt }
       /\ Len(shown) = Cardinality(Elements(shown))
  /\ filter = "completed" =>
       /\ Elements(shown) = { r \in Elements(reminders) : r.is_completed }
       /\ Len(shown) = Cardinality(Elements(shown))

\* the 'upcoming' filter was chosen at the instant an open reminder is due:
\* that one is left out, a later one is shown
C8_Witness ==
  /\ filter = "upcoming"
  /\ \E r \in Elements(reminders) : ~r.is_completed /\ r.scheduled_for = renderedAt
  /\ Len(shown) = 1
  /\ ~shown[1].is_completed /\ shown[1].scheduled_for > renderedAt

\* C11: the response to an analysis request that arrives after a later request
\* was issued is not discarded: its handler overwrites the analysis and the
\* scheduling suggestion with its own reply and, when the reply carries a
\* suggestion, issues its reminder create or update with the text and the
\* reminder id that the earlier request was made with.
C11_StaleResponseStillHandled ==
  [][ \A c \in calls : \A d \in AnalyzeReplies(c) :
        (c.cid + 1 < nextCall /\ AnalyzeResponseOk(c, d)) =>
          /\ analysis' = d.analysis
          /\ schedulingInfo' = d.scheduling_info
          /\ d.scheduling_info # Null =>
                \E r \in remCalls' \ remCalls :
                  /\ r.owner = c.cid
                  /\ r.payload.description = c.text
                  /\ r.payload.original_text = c.text
                  /\ r.payload.priority_level = c.priority
                  /\ r.id = c.createdReminderId
                  /\ r.op = IF c.createdReminderId # 0 THEN "update" ELSE "create" ]_vars

\* the second request was answered first and its reminder was stored; the
\* answer to the first request came after it, replaced the suggestion on
\* screen and has its own reminder call in flight
C11_Witness ==
  \E c \in calls :
    /\ c.cid = 1 /\ c.phase = "reminder" /\ nextCall > 2
    /\ schedulingInfo = c.data.scheduling_info
    /\ schedulingInfo.confidence = UiConfidenceThreshold
    /\ createdReminderId = 1
    /\ createdReminder.scheduling_info.confidence = UiConfidenceThreshold + 1
    /\ \E r \in remCalls : r.owner = 1 /\ r.payload.description = c.text

\* C12: when the text analysis request fails, the text buffer, the remembered
\* reminder (and its id), the previous analysis and the previous scheduling
\* suggestion are what they were, no reminder create or update call is
\* issued, the error notice is shown, and the analyzing flag is false, so the
\* Analyze button of a non-blank buffer is enabled again.
C12_FailedAnalysisLeavesState ==
  [][ \A c \in calls :
        AnalyzeResponseFail(c) =>
          /\ text' = text
          /\ createdReminderId' = createdReminderId
          /\ createdReminder' = createdReminder
          /\ analysis' = analysis
          /\ schedulingInfo' = schedulingInfo
          /\ remCalls' = remCalls /\ reminders' = reminders
          /\ toast' = ErrorToast
          /\ isAnalyzing' = FALSE ]_vars

\* the request of a buffer that had an analysis on screen failed: the
\* analysis is still there, under the error notice
C12_Witness ==
  /\ toast = ErrorToast /\ ~isAnalyzing /\ calls = {} /\ remCalls = {}
  /\ nextCall = 3
  /\ analysis # Null /\ schedulingInfo # Null
  /\ ~IsBlank(text)

\* --------------------------------------- properties: the countdown alerts

\* C13: a mounted countdown timer fires its due alert exactly once: no alert
\* outside an interval tick, after every tick the timer has alerted once if
\* its reminder is due at that tick and not at all otherwise, and never a
\* second time on a later tick of the same mount.
C13_AlertOncePerMount ==
  [][ \A id \in DOMAIN alertsFired' :
        /\ alertsFired'[id] <= 1
        /\ now' # now =>
              (alertsFired'[id] = 1 <=> ById(shown', id).scheduled_for <= now')
        /\ (now' = now /\ id \in DOMAIN alertsFired) => alertsFired'[id] = alertsFired[id] ]_vars

\* a timer that alerted at the tick of its due time and has been through a
\* later tick in the same mount
C13_Witness ==
  \E id \in DOMAIN alertsFired :
    /\ alertsFired[id] = 1 /\ alertLog[id] = 1 /\ alerted[id]
    /\ now >= ById(shown, id).scheduled_for + 500

\* C14: the alerted flag is not kept across mounts: a countdown timer that is
\* mounted starts with the flag false, also for a reminder that has alerted
\* before, and a tick at which a timer with the flag false is due fires the
\* alert (again).
C14_RemountAlertsAgain ==
  [][ \A id \in DOMAIN alerted' :
        /\ id \notin DOMAIN alerted => ~alerted'[id] /\ alertsFired'[id] = 0
        /\ ( /\ id \in DOMAIN alerted /\ ~alerted[id]
             /\ now' # now /\ ById(shown', id).scheduled_for <= now' ) =>
              alertLog'[id] = alertLog[id] + 1 /\ alerted'[id] ]_vars

\* a due reminder that was filtered out of view and back has alerted twice
C14_Witness ==
  \E id \in DOMAIN alertsFired :
    alertLog[id] = 2 /\ alertsFired[id] = 1 /\ filter = "all"

\* --------------------------------------- properties: the reminder provider

\* the step in which the call r ends with the outcome ok
Done(r, ok) ==
  CASE r.op = "create" -> CreateDone(r, ok)
    [] r.op = "update" -> UpdateDone(r, ok)
    [] r.op = "delete" -> DeleteDone(r, ok)
    [] r.op \in {"complete", "uncomplete"} -> MarkDone(r, ok)
    [] OTHER -> FALSE

\* C15: when a create, update, delete or complete/uncomplete call fails, the
\* operation resolves with false and the step in which it fails leaves the
\* local collection exactly as it was.
C15_FailedCallLeavesCollection ==
  [][ \A r \in remCalls :
        Done(r, FALSE) =>
          /\ reminders' = reminders
          /\ returned' = [op |-> r.op, id |-> r.id, value |-> FALSE] ]_vars

\* a delete of a fetched reminder failed: the reminder is still listed
C15_Witness ==
  /\ returned # Null /\ returned.op = "delete" /\ ~returned.value
  /\ HasId(reminders, returned.id)
  /\ remCalls = {}

\* C18: whenever at least one reminder call is outstanding, the loading flag
\* is true, also when two calls overlap and one of them has completed.
C18_LoadingWhileOutstanding == remCalls # {} => loading

\* ------------------------------------------- properties: the session

\* C16: a failed login, by password or by e-mailed code, at the token request
\* or at the profile fetch that follows it, leaves local storage (token and
\* user profile) as it was when the login was called and the session
\* unauthenticated.
C16_FailedLoginLeavesStorage ==
  [][ \A c \in authCalls :
        LoginFail(c) => localStorage' = c.stored /\ user' = Null ]_vars

\* C17: the dashboard and the settings page are rendered only for an
\* authenticated session that is not loading; when auth is not loading, the
\* router never rests on a protected path without a user nor on /login or
\* /register with one: a visit to a protected path without a user ends at
\* /login, a visit to /login or /register with a user ends at /dashboard;
\* and / goes where /dashboard goes.
C17_RouteGuards ==
  /\ View(route, user, authLoading) \in ProtectedPaths => user # Null /\ ~authLoading
  /\ route # "/"
  /\ ~authLoading => /\ route \in ProtectedPaths => user # Null
                     /\ route \in PublicPaths => user = Null
  /\ Settle("/", user, authLoading) = Settle("/dashboard", user, authLoading)
  /\ \A p \in Paths :
       ~authLoading =>
         /\ (p \in ProtectedPaths /\ user = Null) => Settle(p, user, authLoading) = "/login"
         /\ (p \in PublicPaths /\ user # Null) => Settle(p, user, authLoading) = "/dashboard"
         /\ (p \in ProtectedPaths /\ user # Null) => View(p, user, authLoading) = p

\* a logout on a protected page has sent the router to /login
C17_Witness ==
  loggedOut /\ user = Null /\ ~authLoading /\ route = "/login" /\ authCalls = {}

\* what the startup effect is to do with a stored profile that cannot be parsed
StartupClears(c) ==
  StartupEffect(c) => localStorage' = [token |-> Null, user |-> Null] /\ user' = Null

\* the startup effect decides from local storage alone
StartupDecides(c) ==
  StartupEffect(c) =>
    /\ user' # Null <=> ( /\ localStorage.token # Null /\ localStorage.user # Null
                          /\ Parses(localStorage.user) )
    /\ authCalls' = authCalls \ {c}
    /\ ~authLoading'

C19_NoTimerAfterUnmountOrReset ==
  /\ \A t \in intervals : voiceMounted /\ t.inst = voiceInst /\ isRecording
  /\ text = <<>> => timers = {}
  /\ DOMAIN countdown = TimerIds(shown)

\* ------------------------------------------ properties: the list view

\* C21: rendering the filtered and sorted list never changes the provider's
\* collection: at every change of the filter or of the sort key the
\* collection has the same records in the same order after the render as
\* before it.
C21_RenderLeavesCollection ==
  [][ (filter' # filter \/ sortBy' # sortBy) => reminders' = reminders ]_vars

\* all rows are shown in an order that is not the collection's
C21_Witness ==
  /\ filter = "all" /\ sortBy = "title"
  /\ Len(reminders) = 2 /\ Len(shown) = 2
  /\ shown # reminders
  /\ shown = << reminders[2], reminders[1] >>

\* the ids the backend held before the session's first call
SeededIds == {1}

\* C22: a reminder whose createReminder succeeded stays in the local
\* collection until a deleteReminder for its id succeeds, whatever the
\* interleaving.  (The backend stores a reminder exactly when its create
\* succeeds and drops it exactly when its delete succeeds.)
C22_CreatedStaysListed ==
  \A id \in Ids(server) \ SeededIds : HasId(reminders, id)

\* the positions of list whose entries have an id other than id
Others(list, id) == { i \in 1..Len(list) : list[i].id # id }

\* C23: a successful updateReminder(id, ...) replaces exactly the entries
\* with that id by the server's response and leaves every other entry, the
\* order and the length unchanged; a successful deleteReminder(id) removes
\* exactly the entries with that id and leaves the others unchanged and in
\* order.
C23_UpdateDeleteFrame ==
  [][ \A r \in remCalls :
        /\ UpdateDone(r, TRUE) =>
              /\ Len(reminders') = Len(reminders)
              /\ \A i \in 1..Len(reminders) :
                    reminders'[i] = IF reminders[i].id = r.id THEN ServerData(r) ELSE reminders[i]
        /\ DeleteDone(r, TRUE) =>
              /\ ~HasId(reminders', r.id)
              /\ Len(reminders') = Cardinality(Others(reminders, r.id))
              /\ \A i \in Others(reminders, r.id) :
                    reminders'[Cardinality({ j \in Others(reminders, r.id) : j <= i })] = reminders[i]
    ]_vars

\* the first of two listed reminders was updated in place
C23_Witness ==
  /\ Len(reminders) = 2
  /\ reminders[1].id = 1 /\ reminders[1].title = "Tea"
  /\ reminders[2].id = 2 /\ reminders[2].title = "Lunch"
  /\ returned # Null /\ returned.op = "update" /\ returned.id = 1 /\ returned.value

\* --------------------------------- properties: the text workflow, continued

\* C24: whenever the created-reminder marker is set, so that the scheduling
\* panel is rendered, the scheduling suggestion it is rendered from is not
\* null.
C24_PanelHasSuggestion == createdReminder # Null => schedulingInfo # Null

\* C25: each quiet period yields at most one automatic analysis: once the
\* analysis requests and the reminder calls have all completed, an automatic
\* request goes out only if the user has edited the text or the priority (or
\* pressed a button) since the last automatic request went out.
C25_OneAutoPerQuietPeriod ==
  [][ \A c \in IssuedCalls :
        (c.kind = "auto" /\ calls = {} /\ remCalls = {}) => edited ]_vars

\* C28: from Clear until the user triggers a new analysis, the analysis, the
\* scheduling suggestion, the created-reminder marker and the remembered id
\* are empty and no reminder create or update call is issued, also when
\* Clear was pressed with an analysis request in flight.
C28_ClearedStaysCleared ==
  [][ cleared' =>
        /\ analysis' = Null /\ schedulingInfo' = Null
        /\ createdReminder' = Null /\ createdReminderId' = 0
        /\ cleared => remCalls' \subseteq remCalls ]_vars

\* C30: a markCompleted request is sent only for an id the local collection
\* holds, to /uncomplete when the local copy is completed and to /complete
\* otherwise; its success replaces exactly the entries with that id with the
\* server's response; for an id the collection does not hold no request is
\* sent, false is returned, the collection is unchanged and loading is false.
C30_MarkCompleted ==
  [][ /\ \A r \in remCalls' \ remCalls :
           r.op \in {"complete", "uncomplete"} =>
             /\ HasId(reminders, r.id)
             /\ (r.op = "uncomplete") = ById(reminders, r.id).is_completed
      /\ \A r \in remCalls :
           MarkDone(r, TRUE) =>
             /\ Len(reminders') = Len(reminders)
             /\ \A i \in 1..Len(reminders) :
                  reminders'[i] = IF reminders[i].id = r.id THEN ServerData(r)
                                  ELSE reminders[i]
      /\ \A id \in KnownIds :
           MarkMissing(id) =>
             /\ remCalls' = remCalls /\ reminders' = reminders
             /\ returned'.value = FALSE /\ loading' = FALSE ]_vars

\* a reminder completed and then uncompleted again, next to another one
C30_Witness ==
  /\ returned # Null /\ returned.op = "uncomplete" /\ returned.value
  /\ Len(reminders) = 2
  /\ HasId(reminders, returned.id) /\ ~ById(reminders, returned.id).is_completed

\* C26: when a login-code request has succeeded and the login page is what
\* the router shows, the page is in its code-entry step (otpSent) and holds
\* the email the code was requested for.
C26_CodeEntryAfterRequest ==
  [][ \A c \in authCalls :
        (OtpRequestOk(c) /\ View(route', user', authLoading') = "/login") =>
          loginForm'.otpSent /\ loginForm'.email = c.email ]_vars

\* an auth operation is under way: the startup check, a login, a login-code
\* request, a registration
AuthBusy == \E c \in authCalls : c.kind \in {"startup", "login", "otp-request", "register"}

\* C29: the auth loading flag is true at start and eventually false, and it
\* is false whenever no auth operation (startup check, login by password or
\* code, login-code request, registration with its nested login) is under
\* way, however the last one ended.
C29_LoadingLowered ==
  /\ authLoading = TRUE
  /\ <>(~authLoading)
  /\ [](~AuthBusy => ~authLoading)

\* a registration whose nested login failed at the profile fetch: the token
\* is stored, nobody is signed in, the flag is down
C29_Witness ==
  /\ ~authLoading /\ authCalls = {} /\ user = Null
  /\ localStorage.token # Null /\ localStorage.user = Null
  /\ route = "/register"

\* C27: after logout the cached reminder collection is empty, and a session
\* never holds reminders of another user's account: what was fetched for one
\* session is not in the cache under a later session of another user.
C27_NoForeignReminders ==
  /\ loggedOut => reminders = <<>>
  /\ user # Null => \A i \in 1..Len(reminders) : reminders[i].user_id = user.id

====
